---- MODULE Spec2Model ----
(***************************************************************************)
(* Model of the xkcd-db downloader.  The repository holds two variants of  *)
(* the same program:                                                       *)
(*   "semaphore" : src/unnamed/part_000 -- one goroutine per missing comic,*)
(*                 bounded by a token channel of capacity rateLimit;       *)
(*   "chunked"   : src/xkcd.go -- the missing list is split into blocks of *)
(*                 rateLimit comics, getComic runs block after block.      *)
(* A state holds the archive on disk, the main goroutine's position, the   *)
(* worker goroutines, the token channel and the WaitGroup counter.         *)
(***************************************************************************)
EXTENDS Integers, Sequences, FiniteSets, TLC

VARIABLES
    variant,      \* which program runs: "semaphore" or "chunked"
    rateLimit,    \* -r flag (part_000:30) / rateLimit (xkcd.go:37)
    latest,       \* Num of the remote catalog's latest comic
    run,          \* how many times the program was started
    mainpc,       \* position of func main
    exitStatus,   \* "none" while running, "ok" after return, "fatal" after log.Fatalln
    numComics,    \* main's numComics
    missing,      \* main's missing
    dlLists,      \* the lists getComic is called with, in order
    block,        \* index in dlLists of the running getComic call
    idx,          \* range index of getComic's for loop
    workers,      \* the goroutines started by getComic, in spawn order
    tokens,       \* number of elements in the tokens channel
    wg,           \* sync.WaitGroup counter of the running getComic call
    rootExists,   \* dbPath exists
    dirs,         \* names of the entries of dbPath
    files,        \* <<entry, file name, content>> for the files below dbPath
    reported,     \* the count printed by "Downloaded %d missing comics"
    scanned,      \* history: missingComics ran in this run
    scanDirs,     \* history: dirs when missingComics ran
    scanFiles,    \* history: files when missingComics ran
    prev,         \* history: summary of the previous run
    fnIn,         \* input of the function applied by the Fn specification
    fnOut         \* its result

vars == <<variant, rateLimit, latest, run, mainpc, exitStatus, numComics, missing,
          dlLists, block, idx, workers, tokens, wg, rootExists, dirs, files,
          reported, scanned, scanDirs, scanFiles, prev, fnIn, fnOut>>

(***************************************************************************)
(* Bounds of the model and constants of the program.                       *)
(***************************************************************************)
MaxComics == 2
MaxRateLimit == 2
MaxRuns == 2
AbsentIndex == 404

Variants == {"semaphore", "chunked"}
\* nothing printed yet; a printed count n is <<n>>
NoReport == <<>>

(***************************************************************************)
(* Strings are sequences of one-character strings.                         *)
(***************************************************************************)
DigitChars == <<"0", "1", "2", "3", "4", "5", "6", "7", "8", "9">>

RECURSIVE Itoa(_)
Itoa(i) ==
    IF i < 10 THEN <<DigitChars[i + 1]>>
    ELSE Itoa(i \div 10) \o <<DigitChars[(i % 10) + 1]>>

\* strings.Split(s, "/")
RECURSIVE Split(_)
Split(s) ==
    IF \A k \in 1..Len(s) : s[k] # "/" THEN <<s>>
    ELSE LET k == CHOOSE j \in 1..Len(s) :
                      s[j] = "/" /\ \A m \in 1..(j - 1) : s[m] # "/"
         IN  <<SubSeq(s, 1, k - 1)>> \o Split(SubSeq(s, k + 1, Len(s)))

\* imgName := splitUrl[len(splitUrl)-1]
ImgName(img) == Split(img)[Len(Split(img))]

AltSuffix == <<"-alt">>
TranscriptSuffix == <<"-transcript">>

\* Values of the Img field: a URL ending in a file name, a URL ending in "/", no URL.
ImgFileURL == <<"u", "/", "c", ".", "p">>
ImgDirURL == <<"u", "/">>
NoURL == <<>>

\* var comicData Comic
ZeroComic == [Alt |-> "", Transcript |-> "", Img |-> NoURL]

\* What the body of a metadata response can decode into: each text field empty
\* and non-empty in every combination, each shape of Img.
Comics ==
    {[Alt |-> "alt text", Transcript |-> "", Img |-> ImgFileURL],
     [Alt |-> "", Transcript |-> "transcript text", Img |-> ImgDirURL],
     [Alt |-> "alt text", Transcript |-> "transcript text", Img |-> NoURL],
     [Alt |-> "", Transcript |-> "", Img |-> ImgFileURL]}

(***************************************************************************)
(* The file system below dbPath.                                           *)
(***************************************************************************)
\* os.Stat(comicPath) succeeds
Exists(ds, name) == name \in ds

\* os.Create: the file exists afterwards and is empty
CreateFile(fs, d, n) ==
    {f \in fs : ~(f[1] = d /\ f[2] = n)} \cup {<<d, n, "">>}

\* os.Create followed by a complete WriteString / io.Copy
WriteFile(fs, d, n, text) ==
    {f \in fs : ~(f[1] = d /\ f[2] = n)} \cup {<<d, n, text>>}

HasFile(fs, d, n) == \E f \in fs : f[1] = d /\ f[2] = n

FilesOf(fs, d) == {f \in fs : f[1] = d}

(***************************************************************************)
(* missingComics and splitSlice.                                           *)
(***************************************************************************)
\* as IsMissing, with the result of os.Stat ignored
IsMissingAlways(ds, name) == TRUE

\* _, err := os.Stat(comicPath); os.IsNotExist(err)
IsMissing(ds, name) == ~Exists(ds, name)

\* as scanIndex, without the i == 404 case
scanIndexNoSkip(i, ds) == IF IsMissing(ds, Itoa(i)) THEN <<Itoa(i)>> ELSE <<>>

\* one iteration of the for loop of missingComics: what it appends to dlList
scanIndex(i, ds) ==
    IF i = AbsentIndex THEN <<>>
    ELSE IF IsMissing(ds, Itoa(i)) THEN <<Itoa(i)>>
    ELSE <<>>

\* the iterations lo..hi of the loop, in order (halved to keep evaluation shallow)
RECURSIVE scanRange(_, _, _)
scanRange(lo, hi, ds) ==
    IF lo > hi THEN <<>>
    ELSE IF lo = hi THEN scanIndex(lo, ds)
    ELSE LET mid == (lo + hi) \div 2
         IN  scanRange(lo, mid, ds) \o scanRange(mid + 1, hi, ds)

\* for i := 1; i <= numComics; i++ { ... }; return dlList
missingComics(n, ds) == scanRange(1, n, ds)

\* as splitSlice, without the remainder block
splitSliceNoRemainder(input, blockSize) ==
    [b \in 1..(Len(input) \div blockSize) |->
        SubSeq(input, (b - 1) * blockSize + 1, (b - 1) * blockSize + blockSize)]

\* as splitSlice, with the remainder block appended even when rem = 0
splitSliceAlwaysRemainder(input, blockSize) ==
    LET nFullBlocks == Len(input) \div blockSize
        rem == Len(input) % blockSize
        full == [b \in 1..nFullBlocks |->
                    SubSeq(input, (b - 1) * blockSize + 1, (b - 1) * blockSize + blockSize)]
    IN  Append(full, SubSeq(input, nFullBlocks * blockSize + 1,
                                   nFullBlocks * blockSize + rem))

splitSlice(input, blockSize) ==
    LET nFullBlocks == Len(input) \div blockSize
        rem == Len(input) % blockSize
        full == [b \in 1..nFullBlocks |->
                    SubSeq(input, (b - 1) * blockSize + 1, (b - 1) * blockSize + blockSize)]
    IN  IF rem # 0
        THEN Append(full, SubSeq(input, nFullBlocks * blockSize + 1,
                                        nFullBlocks * blockSize + rem))
        ELSE full

(***************************************************************************)
(* Process state.                                                          *)
(***************************************************************************)
\* go func(item string) {...}(item): the goroutine starts at its first statement
FirstPc == IF variant = "semaphore" THEN "acquire" ELSE "meta"

NewWorker(item) ==
    [item |-> item, pc |-> FirstPc, comicData |-> ZeroComic, outcome |-> "none"]

\* as TokenAvailable, for a channel of capacity rateLimit + 1
TokenAvailableOffByOne == tokens <= rateLimit

\* as TokenAvailable, with the channel made one slot smaller than rateLimit
TokenAvailableSmallerChannel == tokens < rateLimit - 1

\* tokens <- struct{}{} can proceed: the channel buffer is not full
TokenAvailable == tokens < rateLimit

\* as DlLists, with the missing list handed out twice
DlListsTwice(m) == <<m, m>>

\* the lists main hands to getComic
DlLists(m) == IF variant = "chunked" THEN splitSlice(m, rateLimit) ELSE <<m>>

\* as WritesField, with the metadata writes left out
WritesFieldNever(text) == FALSE

\* if comicData.Alt != "" (part_000); xkcd.go creates the file unconditionally
WritesField(text) == variant = "chunked" \/ text # ""

\* http.Get(url): an empty URL always fails, any other may fail in transport
GetResults(url) == IF url = NoURL THEN {"err"} ELSE {"ok", "err"}

\* as MetaNextPc, with wg.Done() and the token release not deferred
MetaNextPcSkipsDone(result) == IF result = "ok" THEN "mkdir" ELSE "done"

\* as MetaNextPc, with the return after a failure left out
MetaNextPcNoReturn(result) == "mkdir"

\* where the goroutine goes after the metadata fetch and decode
MetaNextPc(result) == IF result = "ok" THEN "mkdir" ELSE "wgDone"

\* as ImgNextPc, with the return after a failed fetch left out
ImgNextPcNoReturn(result, img) == IF ImgName(img) = <<>> THEN "wgDone" ELSE "create"

\* as ImgNextPc, without the imgName == "" case
ImgNextPcNoNameCheck(result, img) == IF result = "err" THEN "wgDone" ELSE "create"

\* where the goroutine goes after http.Get(comicData.Img)
ImgNextPc(result, img) ==
    IF result = "err" THEN "wgDone"
    ELSE IF ImgName(img) = <<>> THEN "wgDone"
    ELSE "create"

ImgOutcome(result, img) ==
    IF result = "err" THEN "assetTransportErr"
    ELSE IF ImgName(img) = <<>> THEN "noImage"
    ELSE "none"

\* as AfterWgDonePc, with the deferred <-tokens never run
AfterWgDonePcNoRelease == "done"

\* deferred calls run last-in first-out: wg.Done() before <-tokens
AfterWgDonePc == IF variant = "semaphore" THEN "release" ELSE "done"

Running == mainpc # "exited"

\* History of the run that ended, kept until the next run starts its workers.
Summary ==
    [scanned |-> scanned,
     missing |-> missing,
     results |-> {<<workers[w].item, workers[w].outcome, workers[w].pc,
                    workers[w].comicData>> : w \in 1..Len(workers)}]

NoSummary == [scanned |-> FALSE, missing |-> <<>>, results |-> {}]

\* os.Exit / return from main: goroutines, channel and locals cease to exist
ExitWith(status, ds, fs) ==
    /\ exitStatus' = status
    /\ mainpc' = "exited"
    /\ workers' = <<>>
    /\ tokens' = 0
    /\ wg' = 0
    /\ numComics' = 0
    /\ missing' = <<>>
    /\ dlLists' = <<>>
    /\ block' = 0
    /\ idx' = 0
    /\ dirs' = ds
    /\ files' = fs
    /\ prev' = Summary
    /\ UNCHANGED <<variant, rateLimit, latest, run, rootExists, reported, scanned,
                   scanDirs, scanFiles, fnIn, fnOut>>

\* log.Fatalln(err)
Fatal(ds, fs) == ExitWith("fatal", ds, fs)

(***************************************************************************)
(* func main                                                               *)
(***************************************************************************)
\* numComics, err := latestComicNum()
MainProbe ==
    /\ mainpc = "start"
    /\ \E r \in {"ok", "err"} :
          IF r = "ok"
          THEN /\ numComics' = latest
               /\ mainpc' = "stat"
               /\ UNCHANGED <<variant, rateLimit, latest, run, exitStatus, missing,
                              dlLists, block, idx, workers, tokens, wg, rootExists,
                              dirs, files, reported, scanned, scanDirs, scanFiles,
                              prev, fnIn, fnOut>>
          ELSE Fatal(dirs, files)

\* os.Stat(dbPath); os.Mkdir(dbPath, 0755) when it does not exist
MainEnsureDb ==
    /\ mainpc = "stat"
    /\ IF rootExists
       THEN /\ mainpc' = "scan"
            /\ UNCHANGED rootExists
            /\ UNCHANGED <<variant, rateLimit, latest, run, exitStatus, numComics,
                           missing, dlLists, block, idx, workers, tokens, wg, dirs,
                           files, reported, scanned, scanDirs, scanFiles, prev,
                           fnIn, fnOut>>
       ELSE \E ok \in BOOLEAN :
               IF ok
               THEN /\ rootExists' = TRUE
                    /\ mainpc' = "scan"
                    /\ UNCHANGED <<variant, rateLimit, latest, run, exitStatus,
                                   numComics, missing, dlLists, block, idx, workers,
                                   tokens, wg, dirs, files, reported, scanned,
                                   scanDirs, scanFiles, prev, fnIn, fnOut>>
               ELSE Fatal(dirs, files)

\* missing := missingComics(numComics, dbPath)
MainScan ==
    /\ mainpc = "scan"
    /\ missing' = missingComics(numComics, dirs)
    /\ mainpc' = "check"
    /\ scanned' = TRUE
    /\ scanDirs' = dirs
    /\ scanFiles' = files
    /\ UNCHANGED <<variant, rateLimit, latest, run, exitStatus, numComics, dlLists,
                   block, idx, workers, tokens, wg, rootExists, dirs, files,
                   reported, prev, fnIn, fnOut>>

\* if len(missing) == 0 { fmt.Println("Found no missing comics"); return }
MainNoMissing ==
    /\ mainpc = "check"
    /\ Len(missing) = 0
    /\ ExitWith("ok", dirs, files)

\* tokens := make(chan struct{}, *rateLimit) / dlList := splitSlice(missing, rateLimit)
MainGetComic ==
    /\ mainpc = "check"
    /\ Len(missing) # 0
    /\ dlLists' = DlLists(missing)
    /\ block' = 0
    /\ tokens' = 0
    /\ mainpc' = "range"
    /\ prev' = NoSummary
    /\ UNCHANGED <<variant, rateLimit, latest, run, exitStatus, numComics, missing,
                   idx, workers, wg, rootExists, dirs, files, reported, scanned,
                   scanDirs, scanFiles, fnIn, fnOut>>

\* the next call getComic(comics): var wg sync.WaitGroup; or no list is left
MainRange ==
    /\ mainpc = "range"
    /\ IF block < Len(dlLists)
       THEN /\ block' = block + 1
            /\ idx' = 1
            /\ wg' = 0
            /\ mainpc' = IF Len(dlLists[block + 1]) = 0 THEN "wait" ELSE "spawn"
       ELSE /\ mainpc' = IF variant = "semaphore" THEN "report" ELSE "return"
            /\ UNCHANGED <<block, idx, wg>>
    /\ UNCHANGED <<variant, rateLimit, latest, run, exitStatus, numComics, missing,
                   dlLists, workers, tokens, rootExists, dirs, files, reported,
                   scanned, scanDirs, scanFiles, prev, fnIn, fnOut>>

\* one iteration of getComic's for loop: wg.Add(1); go func(item)
MainSpawn ==
    /\ mainpc = "spawn"
    /\ workers' = Append(workers, NewWorker(dlLists[block][idx]))
    /\ wg' = wg + 1
    /\ idx' = idx + 1
    /\ mainpc' = IF idx + 1 > Len(dlLists[block]) THEN "wait" ELSE "spawn"
    /\ UNCHANGED <<variant, rateLimit, latest, run, exitStatus, numComics, missing,
                   dlLists, block, tokens, rootExists, dirs, files, reported,
                   scanned, scanDirs, scanFiles, prev, fnIn, fnOut>>

\* as BarrierOpen, with wg.Wait() left out
BarrierOpenAlways == TRUE

\* wg.Wait() blocks until the WaitGroup counter is zero
BarrierOpen == wg = 0

\* wg.Wait() returns; getComic returns to main
MainWait ==
    /\ mainpc = "wait"
    /\ BarrierOpen
    /\ mainpc' = "range"
    /\ UNCHANGED <<variant, rateLimit, latest, run, exitStatus, numComics, missing,
                   dlLists, block, idx, workers, tokens, wg, rootExists, dirs, files,
                   reported, scanned, scanDirs, scanFiles, prev, fnIn, fnOut>>

\* fmt.Printf("Downloaded %d missing comics\n", len(missing))
MainReport ==
    /\ mainpc = "report"
    /\ reported' = <<Len(missing)>>
    /\ mainpc' = "return"
    /\ UNCHANGED <<variant, rateLimit, latest, run, exitStatus, numComics, missing,
                   dlLists, block, idx, workers, tokens, wg, rootExists, dirs, files,
                   scanned, scanDirs, scanFiles, prev, fnIn, fnOut>>

\* main returns: the process ends with status 0
MainReturn ==
    /\ mainpc = "return"
    /\ ExitWith("ok", dirs, files)

\* the program is started again on the same archive
NewRun ==
    /\ mainpc = "exited"
    /\ run < MaxRuns
    /\ run' = run + 1
    /\ mainpc' = "start"
    /\ exitStatus' = "none"
    /\ reported' = NoReport
    /\ scanned' = FALSE
    /\ scanDirs' = {}
    /\ scanFiles' = {}
    /\ UNCHANGED <<variant, rateLimit, latest, numComics, missing, dlLists, block,
                   idx, workers, tokens, wg, rootExists, dirs, files, prev, fnIn,
                   fnOut>>

(***************************************************************************)
(* The goroutine started by getComic for one item.                         *)
(***************************************************************************)
SetPc(w, newPc) == workers' = [workers EXCEPT ![w].pc = newPc]

\* the goroutine logs why it gives the item up and returns
SetWorker(w, newPc, newOutcome) ==
    workers' = [workers EXCEPT ![w].pc = newPc, ![w].outcome = newOutcome]

\* as FsFail, with log.Println(err) in place of log.Fatalln(err): the goroutine
\* goes on with its next statement
FsFailLogged(w, next, ds, fs) ==
    /\ dirs' = ds
    /\ files' = fs
    /\ SetPc(w, next)
    /\ UNCHANGED <<variant, rateLimit, latest, run, mainpc, exitStatus, numComics,
                   missing, dlLists, block, idx, tokens, wg, rootExists, reported,
                   scanned, scanDirs, scanFiles, prev, fnIn, fnOut>>

\* if err != nil { log.Fatalln(err) } after os.Mkdir, os.Create, WriteString and
\* io.Copy; ds and fs are what the failed operation left on disk
FsFail(w, next, ds, fs) == Fatal(ds, fs)

\* tokens <- struct{}{}
Acquire(w) ==
    /\ Running
    /\ workers[w].pc = "acquire"
    /\ TokenAvailable
    /\ tokens' = tokens + 1
    /\ SetPc(w, "meta")
    /\ UNCHANGED <<variant, rateLimit, latest, run, mainpc, exitStatus, numComics,
                   missing, dlLists, block, idx, wg, rootExists, dirs, files,
                   reported, scanned, scanDirs, scanFiles, prev, fnIn, fnOut>>

\* resp, err := http.Get(url); err = decoder.Decode(&comicData)
GetMeta(w) ==
    /\ Running
    /\ workers[w].pc = "meta"
    /\ \/ \E e \in {"metaTransportErr", "decodeErr"} :
             SetWorker(w, MetaNextPc("err"), e)
       \/ \E c \in Comics :
             workers' = [workers EXCEPT ![w].pc = MetaNextPc("ok"),
                                        ![w].comicData = c]
    /\ UNCHANGED <<variant, rateLimit, latest, run, mainpc, exitStatus, numComics,
                   missing, dlLists, block, idx, tokens, wg, rootExists, dirs, files,
                   reported, scanned, scanDirs, scanFiles, prev, fnIn, fnOut>>

\* err = os.Mkdir(savePath, 0755)
Mkdir(w) ==
    /\ Running
    /\ workers[w].pc = "mkdir"
    /\ \E ok \in BOOLEAN :
          IF ok /\ ~Exists(dirs, workers[w].item)
          THEN /\ dirs' = dirs \cup {workers[w].item}
               /\ SetPc(w, "alt")
               /\ UNCHANGED <<variant, rateLimit, latest, run, mainpc, exitStatus,
                              numComics, missing, dlLists, block, idx, tokens, wg,
                              rootExists, files, reported, scanned, scanDirs,
                              scanFiles, prev, fnIn, fnOut>>
          ELSE FsFail(w, "alt", dirs, files)

\* os.Create(name) and WriteString(text), when the field is written at all
WriteField(w, here, next, name, text) ==
    /\ Running
    /\ workers[w].pc = here
    /\ IF WritesField(text)
       THEN \E r \in {"ok", "createErr", "writeErr"} :
               IF r = "ok"
               THEN /\ files' = WriteFile(files, workers[w].item, name, text)
                    /\ SetPc(w, next)
                    /\ UNCHANGED <<variant, rateLimit, latest, run, mainpc,
                                   exitStatus, numComics, missing, dlLists, block,
                                   idx, tokens, wg, rootExists, dirs, reported,
                                   scanned, scanDirs, scanFiles, prev, fnIn, fnOut>>
               ELSE IF r = "createErr"
               THEN FsFail(w, next, dirs, files)
               ELSE FsFail(w, next, dirs, CreateFile(files, workers[w].item, name))
       ELSE /\ SetPc(w, next)
            /\ UNCHANGED <<variant, rateLimit, latest, run, mainpc, exitStatus,
                           numComics, missing, dlLists, block, idx, tokens, wg,
                           rootExists, dirs, files, reported, scanned, scanDirs,
                           scanFiles, prev, fnIn, fnOut>>

\* alt, err := os.Create(savePath + item + "-alt"); alt.WriteString(comicData.Alt)
WriteAlt(w) ==
    WriteField(w, "alt", "transcript", workers[w].item \o AltSuffix,
               workers[w].comicData.Alt)

\* transcript, err := os.Create(...); transcript.WriteString(comicData.Transcript)
WriteTranscript(w) ==
    WriteField(w, "transcript", "img", workers[w].item \o TranscriptSuffix,
               workers[w].comicData.Transcript)

\* imgResp, err := http.Get(comicData.Img); imgName := splitUrl[len(splitUrl)-1]
GetImg(w) ==
    /\ Running
    /\ workers[w].pc = "img"
    /\ \E r \in GetResults(workers[w].comicData.Img) :
          IF ImgOutcome(r, workers[w].comicData.Img) = "none"
          THEN SetPc(w, ImgNextPc(r, workers[w].comicData.Img))
          ELSE SetWorker(w, ImgNextPc(r, workers[w].comicData.Img),
                            ImgOutcome(r, workers[w].comicData.Img))
    /\ UNCHANGED <<variant, rateLimit, latest, run, mainpc, exitStatus, numComics,
                   missing, dlLists, block, idx, tokens, wg, rootExists, dirs, files,
                   reported, scanned, scanDirs, scanFiles, prev, fnIn, fnOut>>

\* img, err := os.Create(imgPath); io.Copy(img, imgResp.Body)
WriteImg(w) ==
    /\ Running
    /\ workers[w].pc = "create"
    /\ \E r \in {"ok", "createErr", "copyErr"} :
          IF r = "ok"
          THEN /\ files' = WriteFile(files, workers[w].item,
                                     ImgName(workers[w].comicData.Img), "image bytes")
               /\ SetPc(w, "wgDone")
               /\ UNCHANGED <<variant, rateLimit, latest, run, mainpc, exitStatus,
                              numComics, missing, dlLists, block, idx, tokens, wg,
                              rootExists, dirs, reported, scanned, scanDirs,
                              scanFiles, prev, fnIn, fnOut>>
          ELSE IF r = "createErr"
          THEN FsFail(w, "wgDone", dirs, files)
          ELSE FsFail(w, "wgDone", dirs,
                      CreateFile(files, workers[w].item,
                                 ImgName(workers[w].comicData.Img)))

\* defer wg.Done()
WgDone(w) ==
    /\ Running
    /\ workers[w].pc = "wgDone"
    /\ wg' = wg - 1
    /\ SetPc(w, AfterWgDonePc)
    /\ UNCHANGED <<variant, rateLimit, latest, run, mainpc, exitStatus, numComics,
                   missing, dlLists, block, idx, tokens, rootExists, dirs, files,
                   reported, scanned, scanDirs, scanFiles, prev, fnIn, fnOut>>

\* defer func() { <-tokens }()
Release(w) ==
    /\ Running
    /\ workers[w].pc = "release"
    /\ tokens' = tokens - 1
    /\ SetPc(w, "done")
    /\ UNCHANGED <<variant, rateLimit, latest, run, mainpc, exitStatus, numComics,
                   missing, dlLists, block, idx, wg, rootExists, dirs, files,
                   reported, scanned, scanDirs, scanFiles, prev, fnIn, fnOut>>

WorkerStep(w) ==
    \/ Acquire(w)
    \/ GetMeta(w)
    \/ Mkdir(w)
    \/ WriteAlt(w)
    \/ WriteTranscript(w)
    \/ GetImg(w)
    \/ WriteImg(w)
    \/ WgDone(w)
    \/ Release(w)

MainStep ==
    \/ MainProbe
    \/ MainEnsureDb
    \/ MainScan
    \/ MainNoMissing
    \/ MainGetComic
    \/ MainRange
    \/ MainSpawn
    \/ MainWait
    \/ MainReport
    \/ MainReturn

(***************************************************************************)
(* The program, started up to MaxRuns times on the same archive.           *)
(***************************************************************************)
\* An entry that exists before the first run holds one file the program never
\* wrote.  src/xkcd.go fixes rateLimit at 200; here it ranges over
\* 1..MaxRateLimit in both variants, so that blocks and token waits occur with
\* MaxComics comics.
StaleFile == <<"old">>

Init ==
    /\ variant \in Variants
    /\ rateLimit \in 1..MaxRateLimit
    /\ latest \in 0..MaxComics
    /\ run = 1
    /\ mainpc = "start"
    /\ exitStatus = "none"
    /\ numComics = 0
    /\ missing = <<>>
    /\ dlLists = <<>>
    /\ block = 0
    /\ idx = 0
    /\ workers = <<>>
    /\ tokens = 0
    /\ wg = 0
    /\ rootExists \in BOOLEAN
    /\ dirs \in SUBSET {Itoa(i) : i \in 1..latest}
    /\ (~rootExists => dirs = {})
    /\ files = {<<d, StaleFile, "stale">> : d \in dirs}
    /\ reported = NoReport
    /\ scanned = FALSE
    /\ scanDirs = {}
    /\ scanFiles = {}
    /\ prev = NoSummary
    /\ fnIn = <<>>
    /\ fnOut = <<>>

\* one run of the program
NextRun ==
    \/ MainStep
    \/ \E w \in 1..Len(workers) : WorkerStep(w)

Next ==
    \/ NextRun
    \/ NewRun

Spec == Init /\ [][Next]_vars

\* Scheduling within one run: the Go runtime runs every runnable goroutine, and
\* every network and file operation returns.
WorkerStepOf(w) == w \in 1..Len(workers) /\ WorkerStep(w)

FairSpec ==
    /\ Init
    /\ [][NextRun]_vars
    /\ WF_vars(MainStep)
    /\ \A w \in 1..MaxComics : WF_vars(WorkerStepOf(w))

(***************************************************************************)
(* missingComics and splitSlice applied to inputs of their own.            *)
(***************************************************************************)
MaxScanSmall == 3
MaxScanBeyond == 2
MaxSliceLen == 5
MaxBlockSize == 3

\* the indices whose entries the archive of a scan input may or may not hold
ScanWindow ==
    (1..MaxScanSmall) \cup ((AbsentIndex - 1)..(AbsentIndex + MaxScanBeyond))

ScanExtents ==
    (0..MaxScanSmall) \cup ((AbsentIndex - 2)..(AbsentIndex + MaxScanBeyond))

SliceInputs == {[k \in 1..n |-> Itoa(k)] : n \in 0..MaxSliceLen}

\* rateLimit := 200
ChunkedRateLimit == 200

\* a missing list one block of rateLimit and a remainder long
LongSliceInput == [k \in 1..(ChunkedRateLimit + MaxSliceLen) |-> Itoa(k)]

Pending == <<"pending">>

InitFn ==
    /\ variant = "semaphore"
    /\ rateLimit = 1
    /\ latest = 0
    /\ run = 1
    /\ mainpc = "exited"
    /\ exitStatus = "none"
    /\ numComics = 0
    /\ missing = <<>>
    /\ dlLists = <<>>
    /\ block = 0
    /\ idx = 0
    /\ workers = <<>>
    /\ tokens = 0
    /\ wg = 0
    /\ rootExists = TRUE
    /\ dirs = {}
    /\ files = {}
    /\ reported = NoReport
    /\ scanned = FALSE
    /\ scanDirs = {}
    /\ scanFiles = {}
    /\ prev = NoSummary
    /\ fnOut = Pending
    /\ \/ \E n \in ScanExtents, present \in SUBSET ScanWindow :
             fnIn = [fn |-> "missingComics", numComics |-> n,
                     entries |-> {Itoa(i) : i \in present}]
       \/ \E input \in SliceInputs, b \in 1..MaxBlockSize :
             fnIn = [fn |-> "splitSlice", input |-> input, blockSize |-> b]
       \/ fnIn = [fn |-> "splitSlice", input |-> LongSliceInput,
                  blockSize |-> ChunkedRateLimit]

ApplyMissingComics ==
    /\ fnOut = Pending
    /\ fnIn.fn = "missingComics"
    /\ fnOut' = missingComics(fnIn.numComics, fnIn.entries)
    /\ UNCHANGED <<variant, rateLimit, latest, run, mainpc, exitStatus, numComics,
                   missing, dlLists, block, idx, workers, tokens, wg, rootExists,
                   dirs, files, reported, scanned, scanDirs, scanFiles, prev, fnIn>>

ApplySplitSlice ==
    /\ fnOut = Pending
    /\ fnIn.fn = "splitSlice"
    /\ fnOut' = splitSlice(fnIn.input, fnIn.blockSize)
    /\ UNCHANGED <<variant, rateLimit, latest, run, mainpc, exitStatus, numComics,
                   missing, dlLists, block, idx, workers, tokens, wg, rootExists,
                   dirs, files, reported, scanned, scanDirs, scanFiles, prev, fnIn>>

NextFn == ApplyMissingComics \/ ApplySplitSlice

SpecFn == InitFn /\ [][NextFn]_vars

(***************************************************************************)
(* Vocabulary of the properties.                                           *)
(***************************************************************************)
Workers == 1..Len(workers)

\* between the start of the metadata fetch and the last write or the give-up
InFlightPcs == {"meta", "mkdir", "alt", "transcript", "img", "create"}
FinishedPcs == {"wgDone", "release", "done"}
MetaErrors == {"metaTransportErr", "decodeErr"}

InFlight(w) == workers[w].pc \in InFlightPcs
InFlightCount == Cardinality({w \in Workers : InFlight(w)})

\* the metadata fetch of the goroutine has been issued
Attempted(w) == workers[w].pc \notin {"acquire", "meta"}

\* the goroutine ran to its end and logged no error
FinishedOk(w) ==
    workers[w].pc \in FinishedPcs /\ workers[w].outcome \in {"none", "noImage"}

AltName(item) == item \o AltSuffix
TranscriptName(item) == item \o TranscriptSuffix

\* a file of the item's directory other than its two metadata files
HasAsset(fs, item) ==
    \E f \in FilesOf(fs, item) :
        f[2] \notin {AltName(item), TranscriptName(item)}

\* the Img field names an asset: non-empty, with a non-empty last path segment
NamesAsset(c) == c.Img # NoURL /\ ImgName(c.Img) # <<>>

\* the item is complete on disk (data model: directory, one file per non-empty
\* text field, the asset file when Img names one)
Complete(ds, fs, item, c) ==
    /\ item \in ds
    /\ (c.Alt # "" => HasFile(fs, item, AltName(item)))
    /\ (c.Transcript # "" => HasFile(fs, item, TranscriptName(item)))
    /\ (NamesAsset(c) => HasAsset(fs, item))

(***************************************************************************)
(* C1  Bounded concurrency: in both variants, at every instant of a run,   *)
(* at most rateLimit goroutines are between the start of their metadata    *)
(* fetch and their last write or give-up.                                  *)
(***************************************************************************)
C1_BoundedConcurrency == InFlightCount <= rateLimit

\* the limit is reached while more items than the limit are to be fetched
C1_Witness ==
    /\ InFlightCount = rateLimit
    /\ Len(missing) > rateLimit
    /\ \E w \in Workers : workers[w].pc = "acquire"

(***************************************************************************)
(* C2  Every identifier of the missing set computed at scan time is        *)
(* attempted by exactly one goroutine: never two goroutines for one        *)
(* identifier, none skipped once the barrier is passed, and, unless the    *)
(* run ends in a fatal error, every identifier's metadata fetch is         *)
(* eventually issued (no goroutine waits for a token forever).             *)
(***************************************************************************)
AttemptsOf(item) == {w \in Workers : workers[w].item = item /\ Attempted(w)}

AllAttemptedOnce ==
    \A k \in 1..Len(missing) : Cardinality(AttemptsOf(missing[k])) = 1

NoDoubleAttempt ==
    /\ \A w \in Workers : \E k \in 1..Len(missing) : workers[w].item = missing[k]
    /\ \A v, w \in Workers : workers[v].item = workers[w].item => v = w

C2_AttemptedExactlyOnce ==
    /\ [](NoDoubleAttempt)
    /\ [](mainpc \in {"report", "return"} => AllAttemptedOnce)
    /\ ((mainpc = "check" /\ Len(missing) # 0)
            ~> (exitStatus = "fatal" \/ (mainpc = "return" /\ AllAttemptedOnce)))

\* a run with more items than tokens passed the barrier with every item attempted
C2_Witness ==
    /\ mainpc = "return"
    /\ Len(missing) > rateLimit
    /\ AllAttemptedOnce

(***************************************************************************)
(* C3  Idempotence: when the previous run over the same extent left every  *)
(* item of its missing set complete on disk, the next run finds nothing    *)
(* missing, starts no goroutine and changes no directory and no file.      *)
(***************************************************************************)
\* r is <<item, outcome, pc, comicData>> of a goroutine of the previous run
ResultDecoded(r) == r[3] \notin {"acquire", "meta"} /\ r[2] \notin MetaErrors

PrevAllComplete ==
    /\ prev.scanned
    /\ \A k \in 1..Len(prev.missing) :
          \E r \in prev.results :
              /\ r[1] = prev.missing[k]
              /\ ResultDecoded(r)
              /\ Complete(scanDirs, scanFiles, r[1], r[4])

\* the run that follows such a run has scanned and is still running
AfterCompleteRun == run >= 2 /\ Running /\ scanned /\ PrevAllComplete

C3_Idempotent ==
    /\ [](AfterCompleteRun =>
            /\ missing = <<>>
            /\ workers = <<>>
            /\ dirs = scanDirs
            /\ files = scanFiles)
    /\ [][AfterCompleteRun =>
            /\ workers' = <<>>
            /\ dirs' = dirs
            /\ files' = files
            /\ exitStatus' \in {"none", "ok"}]_vars

\* the second run has scanned after a first run that fetched two items completely
C3_Witness ==
    /\ AfterCompleteRun
    /\ run = 2
    /\ Len(prev.missing) >= 2
    /\ \A r \in prev.results : r[2] \in {"none", "noImage"}

(***************************************************************************)
(* C4  Isolation: the step in which one item's metadata fetch fails in     *)
(* transport or in decoding leaves every sibling goroutine, the archive    *)
(* and the process untouched, and afterwards the run still passes its      *)
(* barrier with every sibling that logged no error complete on disk        *)
(* (unless a filesystem failure ends the process).                         *)
(***************************************************************************)
MetaFailed(w) == w \in Workers /\ workers[w].outcome \in MetaErrors

SiblingsComplete ==
    \A v \in Workers :
        /\ workers[v].pc \in FinishedPcs
        /\ (FinishedOk(v) =>
               Complete(dirs, files, workers[v].item, workers[v].comicData))

C4_Isolation ==
    /\ [][\A w \in 1..MaxComics :
            (w \in Workers /\ ~MetaFailed(w) /\ MetaFailed(w)') =>
                /\ exitStatus' = "none"
                /\ dirs' = dirs /\ files' = files
                /\ Len(workers') = Len(workers)
                /\ \A v \in Workers : v # w => workers'[v] = workers[v]]_vars
    /\ \A w \in 1..MaxComics :
          MetaFailed(w) ~>
              (exitStatus = "fatal" \/ (mainpc = "return" /\ SiblingsComplete))

\* the run ends normally with one item given up and its sibling fully fetched
C4_Witness ==
    /\ mainpc = "return"
    /\ \E w, v \in Workers :
          /\ MetaFailed(w)
          /\ workers[v].outcome = "none"
          /\ NamesAsset(workers[v].comicData)
          /\ Complete(dirs, files, workers[v].item, workers[v].comicData)

(***************************************************************************)
(* C5  missingComics(N, archive) is the strictly ascending sequence of the *)
(* decimal names of exactly the indices i in 1..N, other than 404, that    *)
(* have no entry in the archive; 404 is never in it, and it is the empty   *)
(* sequence when nothing is missing.                                       *)
(***************************************************************************)
\* the number a decimal name denotes
DigitValue(ch) == (CHOOSE d \in 1..10 : DigitChars[d] = ch) - 1

RECURSIVE Atoi(_)
Atoi(name) ==
    IF Len(name) = 0 THEN 0
    ELSE 10 * Atoi(SubSeq(name, 1, Len(name) - 1)) + DigitValue(name[Len(name)])

ScanDone == fnIn.fn = "missingComics" /\ fnOut # Pending

ExpectedMissing ==
    {i \in 1..fnIn.numComics : i # AbsentIndex /\ Itoa(i) \notin fnIn.entries}

C5_MissingComics ==
    ScanDone =>
        /\ {Atoi(fnOut[k]) : k \in 1..Len(fnOut)} = ExpectedMissing
        /\ \A k \in 1..Len(fnOut) : fnOut[k] = Itoa(Atoi(fnOut[k]))
        /\ \A k \in 1..(Len(fnOut) - 1) : Atoi(fnOut[k]) < Atoi(fnOut[k + 1])
        /\ \A k \in 1..Len(fnOut) : fnOut[k] # Itoa(AbsentIndex)
        /\ (ExpectedMissing = {} => fnOut = <<>>)

\* a scan past index 404, with no entry named 404 and with entries on both sides
C5_Witness ==
    /\ ScanDone
    /\ fnIn.numComics > AbsentIndex
    /\ Itoa(AbsentIndex) \notin fnIn.entries
    /\ Itoa(AbsentIndex - 1) \in fnIn.entries
    /\ Itoa(AbsentIndex + 1) \notin fnIn.entries
    /\ Len(fnOut) > 1

(***************************************************************************)
(* C6  Completeness after success: for every goroutine that ran to its end *)
(* without logging an error, the item's directory exists, holds one file   *)
(* for each non-empty text field, and holds an asset file if and only if   *)
(* Img is non-empty with a non-empty last path segment.                    *)
(***************************************************************************)
C6_CompleteAfterSuccess ==
    \A w \in Workers :
        FinishedOk(w) =>
            LET item == workers[w].item
                c == workers[w].comicData
            IN  /\ item \in dirs
                /\ (c.Alt # "" => HasFile(files, item, AltName(item)))
                /\ (c.Transcript # "" => HasFile(files, item, TranscriptName(item)))
                /\ (HasAsset(files, item) <=> NamesAsset(c))

\* one item ended with its asset written, another as "has no image"
C6_Witness ==
    \E w, v \in Workers :
        /\ FinishedOk(w) /\ FinishedOk(v)
        /\ NamesAsset(workers[w].comicData) /\ workers[w].comicData.Alt # ""
        /\ workers[v].outcome = "noImage" /\ workers[v].comicData.Transcript # ""

(***************************************************************************)
(* C7  In either variant, the file {index}-alt exists only if the item's   *)
(* alt field was non-empty and the file {index}-transcript exists only if  *)
(* its transcript field was non-empty.                                     *)
(***************************************************************************)
C7_NoFileForEmptyField ==
    \A w \in Workers :
        LET item == workers[w].item
            c == workers[w].comicData
        IN  /\ (HasFile(files, item, AltName(item)) => c.Alt # "")
            /\ (HasFile(files, item, TranscriptName(item)) => c.Transcript # "")

(***************************************************************************)
(* C8  When a run finishes after recoverable per-item errors, the count it *)
(* reports is the number of items processed successfully.                  *)
(***************************************************************************)
C8_ReportsSuccessCount ==
    (mainpc = "return" /\ reported # NoReport) =>
        reported = <<Cardinality({w \in Workers : FinishedOk(w)})>>

(***************************************************************************)
(* C9  A goroutine whose metadata fetch failed in transport or in decoding *)
(* creates no directory and no file for its item, and the next run's       *)
(* missing set contains that item again.                                   *)
(***************************************************************************)
InMissing(item) == \E k \in 1..Len(missing) : missing[k] = item

C9_MetaFailureLeavesNothing ==
    /\ \A w \in Workers :
          MetaFailed(w) =>
              /\ workers[w].item \notin dirs
              /\ FilesOf(files, workers[w].item) = {}
    /\ mainpc = "exited" =>
          \A r \in prev.results : r[2] \in MetaErrors => r[1] \notin dirs
    /\ (run >= 2 /\ mainpc = "check") =>
          \A r \in prev.results : r[2] \in MetaErrors => InMissing(r[1])

\* the second run has scanned after a run in which one item's metadata failed
\* and another item was fetched
C9_Witness ==
    /\ run = 2
    /\ mainpc = "check"
    /\ \E r, q \in prev.results :
          /\ r[2] \in MetaErrors
          /\ q[2] = "none" /\ q[1] \in dirs

(***************************************************************************)
(* C10  A goroutine whose asset fetch failed in transport leaves the       *)
(* item's directory and the metadata files already written on disk and     *)
(* creates no asset file; the failing step touches neither the siblings    *)
(* nor the process; the next run's missing set does not contain the item.  *)
(***************************************************************************)
AssetFailed(w) == w \in Workers /\ workers[w].outcome = "assetTransportErr"

C10_AssetFailureKeepsMetadata ==
    /\ [](\A w \in Workers :
            AssetFailed(w) =>
                LET item == workers[w].item
                    c == workers[w].comicData
                IN  /\ item \in dirs
                    /\ (c.Alt # "" => <<item, AltName(item), c.Alt>> \in files)
                    /\ (c.Transcript # "" =>
                           <<item, TranscriptName(item), c.Transcript>> \in files)
                    /\ ~HasAsset(files, item))
    /\ []((run >= 2 /\ mainpc = "check") =>
            \A r \in prev.results :
                r[2] = "assetTransportErr" => ~InMissing(r[1]))
    /\ [][\A w \in 1..MaxComics :
            (w \in Workers /\ ~AssetFailed(w) /\ AssetFailed(w)') =>
                /\ exitStatus' = "none"
                /\ dirs' = dirs /\ files' = files
                /\ Len(workers') = Len(workers)
                /\ \A v \in Workers : v # w => workers'[v] = workers[v]]_vars

\* the second run has scanned after a run over two items in which the asset
\* fetch of an item with both text fields failed
C10_Witness ==
    /\ run = 2
    /\ mainpc = "check"
    /\ Len(prev.missing) >= 2
    /\ \E r \in prev.results :
          /\ r[2] = "assetTransportErr"
          /\ r[4].Alt # "" /\ r[4].Transcript # ""
          /\ HasFile(files, r[1], AltName(r[1]))

(***************************************************************************)
(* C11  A failure of a goroutine's directory creation, file creation,      *)
(* metadata write or asset copy ends the whole process at that step with   *)
(* a failure status, without waiting for the goroutines in flight: no      *)
(* goroutine is ever found past a file-system step whose result is not on  *)
(* disk in full; a fatal exit leaves no goroutine and no coordinator       *)
(* behind and no count reported; and until a new process is started        *)
(* nothing on disk changes and nothing is reported.                        *)
(***************************************************************************)
PcRank(pc) ==
    CASE pc = "acquire" -> 0
      [] pc = "meta" -> 1
      [] pc = "mkdir" -> 2
      [] pc = "alt" -> 3
      [] pc = "transcript" -> 4
      [] pc = "img" -> 5
      [] pc = "create" -> 6
      [] pc = "wgDone" -> 7
      [] pc = "release" -> 8
      [] pc = "done" -> 9

Decoded(w) == PcRank(workers[w].pc) >= 2 /\ workers[w].outcome \notin MetaErrors

StepsOnDisk(w) ==
    LET item == workers[w].item
        c == workers[w].comicData
        rank == PcRank(workers[w].pc)
    IN  /\ rank >= 3 => item \in dirs
        /\ (rank >= 4 /\ WritesField(c.Alt)) =>
              <<item, AltName(item), c.Alt>> \in files
        /\ (rank >= 5 /\ WritesField(c.Transcript)) =>
              <<item, TranscriptName(item), c.Transcript>> \in files
        /\ (rank >= 7 /\ workers[w].outcome = "none") =>
              <<item, ImgName(c.Img), "image bytes">> \in files

C11_FatalOnFilesystemError ==
    /\ [](\A w \in Workers : Decoded(w) => StepsOnDisk(w))
    /\ [](exitStatus = "fatal" =>
            /\ mainpc = "exited"
            /\ workers = <<>>
            /\ reported = NoReport)
    /\ [][(exitStatus = "fatal" /\ run' = run) =>
            /\ exitStatus' = "fatal"
            /\ dirs' = dirs /\ files' = files
            /\ reported' = reported]_vars

\* the process has exited fatally while one goroutine was at a file-system
\* step and a sibling was still between its two fetches
C11_Witness ==
    /\ exitStatus = "fatal"
    /\ \E r, q \in prev.results :
          /\ r[1] # q[1]
          /\ r[3] \in {"mkdir", "alt", "transcript", "create"}
          /\ q[3] \in InFlightPcs

(***************************************************************************)
(* C12  In the token-channel variant every goroutine takes one token       *)
(* before its metadata fetch, keeps it through its fetches and writes and  *)
(* gives it back once, however it ends (success, metadata transport or     *)
(* decode failure, asset transport failure, empty asset name): the number  *)
(* of tokens in the channel always equals the number of goroutines between *)
(* their acquisition and their release.                                    *)
(***************************************************************************)
HoldsToken(w) == variant = "semaphore" /\ workers[w].pc \notin {"acquire", "done"}

C12_TokenPerWorker ==
    tokens = Cardinality({w \in Workers : HoldsToken(w)})

\* one goroutine has ended on a failure or without an image and given its
\* token back while a sibling still holds its own
C12_Witness ==
    /\ variant = "semaphore"
    /\ tokens = 1
    /\ \E w, v \in Workers :
          /\ workers[w].pc = "done"
          /\ workers[w].outcome \in
                {"metaTransportErr", "decodeErr", "assetTransportErr", "noImage"}
          /\ workers[v].pc \in InFlightPcs

(***************************************************************************)
(* C13  For an input of length L >= 0 and a blockSize B >= 1, splitSlice   *)
(* returns ceil(L/B) blocks, each of length B except possibly the last,    *)
(* whose length is in 1..B, and the blocks concatenated in order are the   *)
(* input (a list of rateLimit + 5 = 205 items with B = rateLimit = 200     *)
(* gives two blocks of 200 and 5).                                         *)
(***************************************************************************)
RECURSIVE Flatten(_)
Flatten(blocks) ==
    IF blocks = <<>> THEN <<>> ELSE Head(blocks) \o Flatten(Tail(blocks))

SplitDone == fnIn.fn = "splitSlice" /\ fnOut # Pending

C13_SplitSlice ==
    SplitDone =>
        LET L == Len(fnIn.input)
            B == fnIn.blockSize
            n == Len(fnOut)
        IN  /\ n = (L + B - 1) \div B
            /\ \A k \in 1..n :
                  /\ k < n => Len(fnOut[k]) = B
                  /\ k = n => Len(fnOut[k]) \in 1..B
            /\ Flatten(fnOut) = fnIn.input

\* the list of one full block of rateLimit and a remainder has been split in two
C13_Witness ==
    /\ SplitDone
    /\ fnIn.input = LongSliceInput
    /\ fnIn.blockSize = ChunkedRateLimit
    /\ Len(fnOut) = 2
    /\ Len(fnOut[1]) = ChunkedRateLimit
    /\ Len(fnOut[2]) = MaxSliceLen

(***************************************************************************)
(* C14 (as stated)  Within one goroutine the metadata fetch precedes the   *)
(* asset fetch and the asset fetch precedes every file write of the item:  *)
(* no file of the item is on disk before its asset fetch has returned.     *)
(***************************************************************************)
AssetFetchReturned(w) == Decoded(w) /\ PcRank(workers[w].pc) >= 6

C14_NoWriteBeforeAssetFetch ==
    \A w \in Workers :
        FilesOf(files, workers[w].item) # {} => AssetFetchReturned(w)

(***************************************************************************)
(* C14 (amended)  Within one goroutine the metadata fetch and decode       *)
(* precede the directory creation, every file write and the asset fetch;   *)
(* the metadata files are written before the asset fetch starts; only the  *)
(* asset file is written after the asset fetch has returned.               *)
(***************************************************************************)
C14_StepOrder ==
    \A w \in Workers :
        LET item == workers[w].item
            c == workers[w].comicData
            pc == workers[w].pc
        IN  /\ (item \in dirs \/ FilesOf(files, item) # {}) =>
                  (Decoded(w) /\ PcRank(pc) >= 3)
            /\ pc \in {"img", "create"} => Decoded(w)
            /\ pc = "img" =>
                  /\ c.Alt # "" =>
                        <<item, AltName(item), c.Alt>> \in files
                  /\ c.Transcript # "" =>
                        <<item, TranscriptName(item), c.Transcript>> \in files
                  /\ ~HasAsset(files, item)
            /\ HasAsset(files, item) =>
                  (AssetFetchReturned(w) /\ workers[w].outcome = "none")

\* a goroutine is about to fetch its asset with both metadata files on disk
C14_Witness ==
    \E w \in Workers :
        /\ workers[w].pc = "img"
        /\ HasFile(files, workers[w].item, AltName(workers[w].item))
        /\ HasFile(files, workers[w].item, TranscriptName(workers[w].item))

(***************************************************************************)
(* C15  A goroutine whose item's Img has an empty last path segment treats *)
(* the item as having no asset: whatever a fetch of that URL would return, *)
(* it ends without an error outcome, with the metadata files written and   *)
(* no asset file.                                                          *)
(***************************************************************************)
C15_EmptyAssetNameIsNoError ==
    \A w \in Workers :
        (/\ Decoded(w)
         /\ workers[w].pc \in FinishedPcs
         /\ ImgName(workers[w].comicData.Img) = <<>>) =>
            /\ workers[w].outcome = "noImage"
            /\ ~HasAsset(files, workers[w].item)

(***************************************************************************)
(* C16  Completion barrier: getComic returns and main prints its final     *)
(* line only after every goroutine started for the missing list has        *)
(* finished, with its item written or abandoned; when completion is        *)
(* reported one goroutine has been started per missing item and none is    *)
(* still waiting, fetching or writing.                                     *)
(***************************************************************************)
PastBarrierPcs == {"release", "done"}

C16_CompletionBarrier ==
    /\ mainpc \in {"report", "return"} =>
          /\ Len(workers) = Len(missing)
          /\ \A w \in Workers : workers[w].pc \in PastBarrierPcs
    /\ exitStatus = "ok" =>
          /\ Cardinality(prev.results) = Len(prev.missing)
          /\ \A r \in prev.results : r[3] \in PastBarrierPcs

\* completion is reported after one goroutine wrote its item and another
\* abandoned its own
C16_Witness ==
    /\ mainpc = "return"
    /\ \E w, v \in Workers :
          /\ FinishedOk(w)
          /\ workers[v].outcome \in MetaErrors

(***************************************************************************)
(* C17  A run never touches an item that was present at scan time: for     *)
(* every index whose directory existed when missingComics ran, no          *)
(* goroutine is started, and the directory and its files stay as they      *)
(* were, whatever they hold.                                               *)
(***************************************************************************)
C17_PresentItemsUntouched ==
    scanned =>
        \A d \in scanDirs :
            /\ d \in dirs
            /\ FilesOf(files, d) = FilesOf(scanFiles, d)
            /\ \A w \in Workers : workers[w].item # d

\* the run has written a missing item next to one that was present at the scan
C17_Witness ==
    /\ scanned
    /\ scanDirs # {}
    /\ \E d \in scanDirs : FilesOf(scanFiles, d) # {}
    /\ \E w \in Workers :
          /\ FinishedOk(w)
          /\ HasAsset(files, workers[w].item)

(***************************************************************************)
(* C18  Termination without deadlock: for every rateLimit >= 1 and every   *)
(* missing list, if main and every goroutine keep being scheduled and      *)
(* every fetch and file operation returns, the process eventually returns  *)
(* from main or exits fatally; goroutines are never all left blocked on    *)
(* the token channel and main is never left blocked in wg.Wait.            *)
(***************************************************************************)
C18_Terminates ==
    <>(mainpc = "exited" /\ exitStatus \in {"ok", "fatal"})

\* a run of the token-channel variant over more items than tokens has returned
C18_Witness ==
    /\ variant = "semaphore"
    /\ exitStatus = "ok"
    /\ Len(prev.missing) > rateLimit

(***************************************************************************)
(* C19  With nothing but the run changing the archive, os.Mkdir never      *)
(* fails because the directory exists: goroutines are started only for     *)
(* indices without an entry at scan time, one goroutine per index, so a    *)
(* goroutine that reaches os.Mkdir finds no entry of its item's name.      *)
(***************************************************************************)
C19_MkdirNeverFindsEntry ==
    /\ \A w \in Workers :
          /\ workers[w].item \notin scanDirs
          /\ PcRank(workers[w].pc) <= 2 => workers[w].item \notin dirs
    /\ \A w, v \in Workers : workers[w].item = workers[v].item => w = v

\* a goroutine is at os.Mkdir after a sibling has created its own directory
C19_Witness ==
    \E w, v \in Workers :
        /\ workers[w].pc = "mkdir"
        /\ workers[v].pc \in {"alt", "transcript", "img", "create"}
        /\ workers[v].item \in dirs

(***************************************************************************)
(* C20 (as stated)  When main has returned from wg.Wait and reports        *)
(* completion every token has been given back: the token channel is empty  *)
(* in every state after the barrier.                                       *)
(***************************************************************************)
PastBarrier == mainpc \in {"report", "return"}

C20_NoTokenAfterBarrier == PastBarrier => tokens = 0

(***************************************************************************)
(* C20 (amended)  When main has returned from wg.Wait, every token still   *)
(* in the channel belongs to a goroutine that has already called wg.Done   *)
(* and has nothing left to run but its deferred release; no goroutine      *)
(* that is waiting, fetching or writing holds one.                         *)
(***************************************************************************)
C20_TokensAfterBarrier ==
    PastBarrier =>
        /\ tokens = Cardinality({w \in Workers : workers[w].pc = "release"})
        /\ \A w \in Workers : HoldsToken(w) => workers[w].pc = "release"

\* main is about to print its final line while a goroutine still holds a token
C20_Witness ==
    /\ mainpc = "report"
    /\ tokens >= 1
    /\ \E w \in Workers : workers[w].pc = "release"

====
